---------------------------- MODULE Spec2Model ----------------------------
(***************************************************************************)
(* Model of core/deliverservice/blocksprovider/blocksprovider.go:          *)
(* blocksProviderImpl with its receive loop DeliverBlocks() and the        *)
(* concurrent Stop().  The loop is cut into atomic steps at the points     *)
(* where it touches shared state or a collaborator: the atomic load of     *)
(* done, Recv, VerifyBlock, PeersOfChannel, AddPayload, Gossip and the     *)
(* deferred Close.  Stop() is cut at its atomic store and its Close.       *)
(***************************************************************************)
EXTENDS Integers, Sequences, FiniteSets, TLC

\* ------------------------------------------------------------------ bounds
\* Number of responses the stream delivers after which the loop goes on
\* (responses that end the run are bounded by MaxRuns).
MaxRecv == 2
\* Block header numbers range over 1..MaxSeq.
MaxSeq == 2
\* Number of Stop() calls made on the relay.
MaxStops == 1
\* Number of (sequential) DeliverBlocks() invocations on the relay.
MaxRuns == 2
\* PeersOfChannel returns a slice of 0..MaxPeers members.
MaxPeers == 1

\* --------------------------------------------------------------- constants
\* common.Status_SUCCESS, the code compared against at the Status case.
Status_SUCCESS == 200
\* A status code other than success (common.Status_SERVICE_UNAVAILABLE).
Status_SERVICE_UNAVAILABLE == 503
\* GossipMessage.Nonce set by createGossipMsg.
GossipNonce == 0

StatusCodes == {Status_SUCCESS, Status_SERVICE_UNAVAILABLE}
SeqNums == 1..MaxSeq
\* Block bodies; BadData stands for content proto.Marshal refuses to encode.
GoodData == {"d0"}
BadData == "bad"
\* The channel the relay is constructed for.
ChainIDs == {"chA"}
Tag_CHAN_AND_ORG == "CHAN_AND_ORG"

\* ------------------------------------------------------------ data model
\* common.Block as far as the loop looks at it: Header (may be nil on the
\* wire), Header.Number and the body.
Block(h, n, d) == [hasHeader |-> h, number |-> n, data |-> d]
NilBlock == Block(FALSE, 0, "")
Blocks ==
    {Block(TRUE, n, d) : n \in SeqNums, d \in GoodData \cup {BadData}}
        \cup {NilBlock}

\* The (msg, err) pair returned by Recv.  type is the dynamic type of
\* msg.Type: "Status", "Block" or anything else ("Other").
Response(e, t, s, b) == [err |-> e, type |-> t, status |-> s, block |-> b]
NoResponse == Response(FALSE, "", 0, NilBlock)
RecvError == Response(TRUE, "", 0, NilBlock)
Messages ==
    {Response(FALSE, "Status", s, NilBlock) : s \in StatusCodes}
        \cup {Response(FALSE, "Block", 0, b) : b \in Blocks}
        \cup {Response(FALSE, "Other", 0, NilBlock)}

NilBytes == <<>>
NilPayload == [SeqNum |-> 0, Data |-> NilBytes]
NilGossipMsg ==
    [Nonce |-> 0, Tag |-> "", Channel |-> "", Payload |-> NilPayload]

\* proto.Marshal(t.Block): the wire bytes carry the header number and the
\* body; content the encoder refuses gives an error and no bytes.
Marshal(b) ==
    IF b.data = BadData
        THEN [err |-> TRUE, bytes |-> NilBytes]
        ELSE [err |-> FALSE, bytes |-> <<b.number, b.data>>]

createPayload(seqNum, marshaledBlock) ==
    [SeqNum |-> seqNum, Data |-> marshaledBlock]

\* Mutant: the destination channel of the gossip message is left unset.
createGossipMsgNoChannel(chainID, payload) ==
    [Nonce |-> GossipNonce, Tag |-> Tag_CHAN_AND_ORG,
     Channel |-> "", Payload |-> payload]

createGossipMsg(chainID, payload) ==
    [Nonce |-> GossipNonce, Tag |-> Tag_CHAN_AND_ORG,
     Channel |-> chainID, Payload |-> payload]

\* ------------------------------------------------------------------ state
VARIABLES
    chainID,        \* b.chainID
    done,           \* b.done (int32, accessed atomically)
    closed,         \* the stream client has been closed
    closeCalls,     \* number of b.client.Close() invocations
    pc,             \* position of DeliverBlocks
    exit,           \* which return / unwinding ended the current run
    runs,           \* DeliverBlocks invocations so far
    stopPc,         \* position of Stop
    stops,          \* Stop invocations so far
    msg,            \* locals msg, err of the current iteration
    seqNum,         \* local seqNum
    marshaledBlock, \* local marshaledBlock
    numberOfPeers,  \* local numberOfPeers
    payload,        \* local payload
    gossipMsg,      \* local gossipMsg
    addErr,         \* the error AddPayload returned (dropped by the loop)
    callsAfterStop, \* per callee, the loop's calls that returned while done = 1
    trace           \* collaborator calls made by the loop, in order

fields == <<chainID, done>>
stream == <<closed, closeCalls>>
stopper == <<stopPc, stops>>
locals == <<msg, seqNum, marshaledBlock, numberOfPeers, payload, gossipMsg,
            addErr>>
vars == <<chainID, done, closed, closeCalls, pc, exit, runs, stopPc, stops,
          msg, seqNum, marshaledBlock, numberOfPeers, payload, gossipMsg,
          addErr, callsAfterStop, trace>>

\* Calls recorded in trace.
RecvCall(m) == [op |-> "Recv", res |-> m]
VerifyCall(c, n, bytes, ok) ==
    [op |-> "VerifyBlock", chainID |-> c, seqNum |-> n, block |-> bytes,
     ok |-> ok]
PeersCall(c) == [op |-> "PeersOfChannel", chainID |-> c]
AddCall(c, p) == [op |-> "AddPayload", chainID |-> c, payload |-> p]
GossipCall(g) == [op |-> "Gossip", msg |-> g]
Callees == {"Recv", "VerifyBlock", "PeersOfChannel", "AddPayload", "Gossip"}

\* The loop's call of callee o has returned: it is counted if Stop() had
\* stored done = 1 by then.
CountCall(o) ==
    callsAfterStop' =
        IF done = 1 THEN [callsAfterStop EXCEPT ![o] = @ + 1]
        ELSE callsAfterStop

RECURSIVE Select(_, _)
\* The subsequence of s whose entries have op = o.
Select(s, o) ==
    IF s = <<>> THEN <<>>
    ELSE IF Head(s).op = o THEN <<Head(s)>> \o Select(Tail(s), o)
    ELSE Select(Tail(s), o)


\* NewBlocksProvider: done is left at its zero value, nothing is called.
Init ==
    /\ chainID \in ChainIDs
    /\ done = 0
    /\ closed = FALSE
    /\ closeCalls = 0
    /\ pc = "new"
    /\ exit = "none"
    /\ runs = 0
    /\ stopPc = "idle"
    /\ stops = 0
    /\ msg = NoResponse
    /\ seqNum = 0
    /\ marshaledBlock = NilBytes
    /\ numberOfPeers = 0
    /\ payload = NilPayload
    /\ gossipMsg = NilGossipMsg
    /\ addErr = FALSE
    /\ callsAfterStop = [o \in Callees |-> 0]
    /\ trace = <<>>

ResetLocals ==
    /\ msg' = NoResponse
    /\ seqNum' = 0
    /\ marshaledBlock' = NilBytes
    /\ numberOfPeers' = 0
    /\ payload' = NilPayload
    /\ gossipMsg' = NilGossipMsg
    /\ addErr' = FALSE

\* isDone() comparing the flag with a value Stop() never stores.
isDoneWrongValue == done = 2

\* isDone(): atomic.LoadInt32(&b.done) == 1
isDone == done = 1

\* ------------------------------------------------- DeliverBlocks: dispatch
\* Where the iteration goes after Recv returned: the next position of the
\* loop and, when it leaves the loop, why.
Cont(p, x) == [pc |-> p, exit |-> x]

\* Mutant: a receive error is retried instead of ending the loop.
OnRecvErrorRetry == Cont("loop", "none")

\* Mutant: the stream is closed at the end of the loop only, so the return
\* on a receive error leaves without closing it.
OnRecvErrorNoClose == Cont("returned", "recvErr")

\* if err != nil { ...; return }
OnRecvError == Cont("defer", "recvErr")

\* Mutant: the return after a success status is missing.
OnStatusNoReturn(m) == Cont("loop", "none")

\* Mutant: every status, success or not, ends the loop.
OnStatusAlwaysReturn(m) == Cont("defer", "success")

\* case *orderer.DeliverResponse_Status
OnStatus(m) ==
    IF m.status = Status_SUCCESS
        THEN Cont("defer", "success")
        ELSE Cont("loop", "none")

\* Mutant: a serialization failure returns from DeliverBlocks.
OnBlockMarshalErrReturns(m) ==
    IF ~m.block.hasHeader THEN Cont("panic", "panic")
    ELSE IF Marshal(m.block).err THEN Cont("defer", "none")
    ELSE Cont("verify", "none")

\* Mutant: the continue after a serialization failure is missing.
OnBlockNoContinue(m) ==
    IF ~m.block.hasHeader THEN Cont("panic", "panic")
    ELSE Cont("verify", "none")

\* case *orderer.DeliverResponse_Block, up to the call of VerifyBlock.
\* t.Block.Header.Number dereferences Header: a nil Header panics.
OnBlock(m) ==
    IF ~m.block.hasHeader THEN Cont("panic", "panic")
    ELSE IF Marshal(m.block).err THEN Cont("loop", "none")
    ELSE Cont("verify", "none")

\* Mutant: an unrecognized message is logged and skipped.
OnDefaultContinue == Cont("loop", "none")

\* default: ...; return
OnDefault == Cont("defer", "unknown")

Dispatch(m) ==
    IF m.err THEN OnRecvError
    ELSE IF m.type = "Status" THEN OnStatus(m)
    ELSE IF m.type = "Block" THEN OnBlock(m)
    ELSE OnDefault

\* Responses received so far after which the loop went on.
Delivered ==
    Len(SelectSeq(Select(trace, "Recv"),
                  LAMBDA c : Dispatch(c.res).pc \notin {"defer", "panic"}))

\* The responses the stream can still hand out: any that ends the run, and
\* the others while fewer than MaxRecv of them were delivered.
Deliverable ==
    {m \in Messages :
        Dispatch(m).pc \in {"defer", "panic"} \/ Delivered < MaxRecv}

\* -------------------------------------------------- DeliverBlocks: steps
\* DeliverBlocks() is called (again, after an earlier call returned); the
\* deferred Close is registered.
Invoke ==
    /\ pc \in {"new", "returned"}
    /\ runs < MaxRuns
    /\ pc' = "loop"
    /\ runs' = runs + 1
    /\ exit' = "none"
    /\ ResetLocals
    /\ UNCHANGED <<fields, stream, stopper, trace>>
    /\ UNCHANGED callsAfterStop

\* for !b.isDone() { : the loop head; on false the body starts and Recv is
\* issued.
LoopCheck ==
    /\ pc = "loop"
    /\ IF isDone
          THEN pc' = "defer" /\ exit' = "isDone"
          ELSE pc' = "recv" /\ exit' = "none"
    /\ ResetLocals
    /\ UNCHANGED <<fields, stream, stopper, runs, trace>>
    /\ UNCHANGED callsAfterStop

\* msg, err := b.client.Recv() returns m, followed by the error check, the
\* type switch and, for a block, the serialization.
RecvReturn(m) ==
    /\ pc = "recv"
    /\ msg' = m
    /\ trace' = Append(trace, RecvCall(m))
    /\ pc' = Dispatch(m).pc
    /\ exit' = Dispatch(m).exit
    /\ seqNum' =
         IF ~m.err /\ m.type = "Block" /\ m.block.hasHeader
             THEN m.block.number ELSE 0
    /\ marshaledBlock' =
         IF ~m.err /\ m.type = "Block" /\ m.block.hasHeader
             THEN Marshal(m.block).bytes ELSE NilBytes
    /\ UNCHANGED <<fields, stream, stopper, runs, numberOfPeers, payload,
                   gossipMsg, addErr>>
    /\ CountCall("Recv")

\* What a Recv on the open stream can return: any message, or an error.
RecvOpen ==
    /\ ~closed
    /\ \E m \in {RecvError} \cup Deliverable : RecvReturn(m)

\* A Recv pending or issued on the closed stream returns an error (the
\* stream client's contract: closing unblocks a pending receive with an
\* error or EOF).
RecvClosedErr ==
    /\ closed
    /\ RecvReturn(RecvError)

\* Mutant: the error returned by VerifyBlock is not looked at.
VerifyBlockIgnoreResult ==
    /\ pc = "verify"
    /\ \E ok \in BOOLEAN :
          trace' = Append(trace, VerifyCall(chainID, seqNum, marshaledBlock, ok))
    /\ pc' = "peers"
    /\ UNCHANGED <<fields, stream, stopper, runs, exit, locals>>
    /\ CountCall("VerifyBlock")

\* Mutant: a verification failure returns from DeliverBlocks.
VerifyBlockRejectReturns ==
    /\ pc = "verify"
    /\ \E ok \in BOOLEAN :
          /\ trace' = Append(trace, VerifyCall(chainID, seqNum, marshaledBlock, ok))
          /\ pc' = IF ok THEN "peers" ELSE "defer"
    /\ UNCHANGED <<fields, stream, stopper, runs, exit, locals>>
    /\ CountCall("VerifyBlock")

\* b.mcs.VerifyBlock(ChainID(b.chainID), seqNum, marshaledBlock): the
\* verifier accepts (nil) or rejects (error -> continue).
VerifyBlock ==
    /\ pc = "verify"
    /\ \E ok \in BOOLEAN :
          /\ trace' = Append(trace, VerifyCall(chainID, seqNum, marshaledBlock, ok))
          /\ pc' = IF ok THEN "peers" ELSE "loop"
    /\ UNCHANGED <<fields, stream, stopper, runs, exit, locals>>
    /\ CountCall("VerifyBlock")

\* numberOfPeers := len(b.gossip.PeersOfChannel(...)); then payload and
\* gossipMsg are built.
PeersOfChannel ==
    /\ pc = "peers"
    /\ \E n \in 0..MaxPeers : numberOfPeers' = n
    /\ payload' = createPayload(seqNum, marshaledBlock)
    /\ gossipMsg' = createGossipMsg(chainID, payload')
    /\ trace' = Append(trace, PeersCall(chainID))
    /\ pc' = "add"
    /\ UNCHANGED <<fields, stream, stopper, runs, exit, msg, seqNum,
                   marshaledBlock, addErr>>
    /\ CountCall("PeersOfChannel")

\* Mutant: a payload the local buffer refused is not gossiped.
AddPayloadErrSkipsGossip ==
    /\ pc = "add"
    /\ addErr' \in BOOLEAN
    /\ trace' = Append(trace, AddCall(chainID, payload))
    /\ pc' = IF addErr' THEN "loop" ELSE "gossip"
    /\ UNCHANGED <<fields, stream, stopper, runs, exit, msg, seqNum,
                   marshaledBlock, numberOfPeers, payload, gossipMsg>>
    /\ CountCall("AddPayload")

\* Mutant: the block is gossiped before it is added to the local buffer.
AddPayloadAfterGossip ==
    /\ pc = "add"
    /\ addErr' \in BOOLEAN
    /\ trace' = trace \o <<GossipCall(gossipMsg), AddCall(chainID, payload)>>
    /\ pc' = "loop"
    /\ UNCHANGED <<fields, stream, stopper, runs, exit, msg, seqNum,
                   marshaledBlock, numberOfPeers, payload, gossipMsg>>
    /\ callsAfterStop' =
          IF done = 1
              THEN [callsAfterStop EXCEPT !["AddPayload"] = @ + 1,
                                          !["Gossip"] = @ + 1]
              ELSE callsAfterStop

\* b.gossip.AddPayload(b.chainID, payload): the returned error is dropped.
AddPayload ==
    /\ pc = "add"
    /\ addErr' \in BOOLEAN
    /\ trace' = Append(trace, AddCall(chainID, payload))
    /\ pc' = "gossip"
    /\ UNCHANGED <<fields, stream, stopper, runs, exit, msg, seqNum,
                   marshaledBlock, numberOfPeers, payload, gossipMsg>>
    /\ CountCall("AddPayload")

\* Mutant: nothing is gossiped when the channel has no other member.
GossipUnlessNoPeers ==
    /\ pc = "gossip"
    /\ trace' = IF numberOfPeers = 0 THEN trace
                 ELSE Append(trace, GossipCall(gossipMsg))
    /\ pc' = "loop"
    /\ UNCHANGED <<fields, stream, stopper, runs, exit, locals>>
    /\ CountCall("Gossip")

\* b.gossip.Gossip(gossipMsg); the iteration ends.
Gossip ==
    /\ pc = "gossip"
    /\ trace' = Append(trace, GossipCall(gossipMsg))
    /\ pc' = "loop"
    /\ UNCHANGED <<fields, stream, stopper, runs, exit, locals>>
    /\ CountCall("Gossip")

\* Mutant: the deferred call closes the stream only if it is still open.
DeferCloseIfOpen ==
    /\ pc \in {"defer", "panic"}
    /\ closed' = TRUE
    /\ closeCalls' = IF closed THEN closeCalls ELSE closeCalls + 1
    /\ pc' = IF pc = "defer" THEN "returned" ELSE "crashed"
    /\ UNCHANGED <<fields, stopper, runs, exit, locals, trace>>
    /\ UNCHANGED callsAfterStop

\* Mutant: DeliverBlocks marks the relay done when it leaves the loop.
DeferCloseMarksDone ==
    /\ pc \in {"defer", "panic"}
    /\ closed' = TRUE
    /\ closeCalls' = closeCalls + 1
    /\ done' = 1
    /\ pc' = IF pc = "defer" THEN "returned" ELSE "crashed"
    /\ UNCHANGED <<chainID, stopper, runs, exit, locals, trace>>
    /\ UNCHANGED callsAfterStop

\* Mutant: the deferred Close is missing.
DeferCloseMissing ==
    /\ pc \in {"defer", "panic"}
    /\ pc' = IF pc = "defer" THEN "returned" ELSE "crashed"
    /\ UNCHANGED <<fields, stream, stopper, runs, exit, locals, trace>>
    /\ UNCHANGED callsAfterStop

\* defer b.client.Close(): runs when DeliverBlocks returns and when it
\* unwinds from a panic (which then takes the process down).
DeferClose ==
    /\ pc \in {"defer", "panic"}
    /\ closed' = TRUE
    /\ closeCalls' = closeCalls + 1
    /\ pc' = IF pc = "defer" THEN "returned" ELSE "crashed"
    /\ UNCHANGED <<fields, stopper, runs, exit, locals, trace>>
    /\ UNCHANGED callsAfterStop

\* ------------------------------------------------------------------- Stop
\* Stop() is called: atomic.StoreInt32(&b.done, 1)
StopStore ==
    /\ pc # "crashed"
    /\ stopPc = "idle"
    /\ stops < MaxStops
    /\ done' = 1
    /\ stopPc' = "close"
    /\ stops' = stops + 1
    /\ UNCHANGED <<chainID, stream, pc, exit, runs, locals, trace>>
    /\ UNCHANGED callsAfterStop

\* Mutant: Stop() only sets the flag and leaves the stream open.
StopCloseNoClose ==
    /\ pc # "crashed"
    /\ stopPc = "close"
    /\ stopPc' = "idle"
    /\ UNCHANGED <<fields, stream, stops, pc, exit, runs, locals, trace>>
    /\ UNCHANGED callsAfterStop

\* b.client.Close(), and Stop() returns.
StopClose ==
    /\ pc # "crashed"
    /\ stopPc = "close"
    /\ closed' = TRUE
    /\ closeCalls' = closeCalls + 1
    /\ stopPc' = "idle"
    /\ UNCHANGED <<fields, stops, pc, exit, runs, locals, trace>>
    /\ UNCHANGED callsAfterStop

\* ---------------------------------------------------------- specification
\* The steps of the goroutine running DeliverBlocks that do not wait for the
\* ordering service.
LoopStep ==
    \/ LoopCheck
    \/ VerifyBlock
    \/ PeersOfChannel
    \/ AddPayload
    \/ Gossip
    \/ DeferClose

Next ==
    \/ Invoke
    \/ LoopCheck
    \/ RecvOpen
    \/ RecvClosedErr
    \/ VerifyBlock
    \/ PeersOfChannel
    \/ AddPayload
    \/ Gossip
    \/ DeferClose
    \/ StopStore
    \/ StopClose

Spec == Init /\ [][Next]_vars

\* Both goroutines are scheduled, every collaborator call returns, and a
\* Recv on a closed stream returns an error.
LiveSpec ==
    /\ Spec
    /\ WF_vars(LoopStep)
    /\ WF_vars(RecvClosedErr)
    /\ WF_vars(StopClose)

\* ------------------------------------------------------ views of the trace
Recvs == Select(trace, "Recv")
Verifies == Select(trace, "VerifyBlock")
Adds == Select(trace, "AddPayload")
Gossips == Select(trace, "Gossip")

IsBlock(m) == ~m.err /\ m.type = "Block"
\* A block message the loop can serialize.
IsWellFormed(m) == IsBlock(m) /\ m.block.hasHeader /\ ~Marshal(m.block).err

\* Index of the last Recv entry before position i of the trace (0: none).
LastRecvBefore(i) ==
    LET js == {j \in 1..(i - 1) : trace[j].op = "Recv"}
    IN  IF js = {} THEN 0 ELSE CHOOSE j \in js : \A k \in js : k <= j

\* The loop is inside the processing of a received block.
InBlock == pc \in {"verify", "peers", "add", "gossip"}
\* DeliverBlocks has been called and has not returned.
Running == pc \in {"loop", "recv", "verify", "peers", "add", "gossip",
                   "defer", "panic"}

\* ---------------------------------------------------------------------- C1
\* C1: every AddPayload call and every Gossip call in the trace belongs to
\* an iteration whose Recv returned a block that serialized and whose
\* VerifyBlock call, made on that block's number and bytes right after the
\* Recv, returned nil; the payload handed on is that block's.  Hence a
\* rejected or unserializable block yields no AddPayload and no Gossip.
C1_VerificationGate ==
    \A i \in 1..Len(trace) :
        trace[i].op \in {"AddPayload", "Gossip"} =>
            LET j == LastRecvBefore(i) IN
            /\ j > 0
            /\ IsWellFormed(trace[j].res)
            /\ j + 1 < i
            /\ trace[j + 1].op = "VerifyBlock"
            /\ trace[j + 1].ok
            /\ trace[j + 1].seqNum = trace[j].res.block.number
            /\ trace[j + 1].block = Marshal(trace[j].res.block).bytes
            /\ LET p == IF trace[i].op = "AddPayload"
                            THEN trace[i].payload
                            ELSE trace[i].msg.Payload
               IN  p = createPayload(trace[j].res.block.number,
                                     Marshal(trace[j].res.block).bytes)

\* A rejected block and an accepted one have been through the loop: the
\* rejected one left no payload, the accepted one was added and gossiped.
C1_Witness ==
    /\ \E i \in 1..Len(Verifies) : ~Verifies[i].ok
    /\ Len(Gossips) = 1
    /\ Len(Adds) = 1
    /\ pc = "loop"

\* ---------------------------------------------------------------------- C2
\* Every block received so far was well formed and every verification
\* accepted.
AllAccepted ==
    \A i \in 1..Len(trace) :
        /\ (trace[i].op = "Recv" /\ IsBlock(trace[i].res))
              => IsWellFormed(trace[i].res)
        /\ trace[i].op = "VerifyBlock" => trace[i].ok

BlocksReceived == SelectSeq(Recvs, LAMBDA c : IsBlock(c.res))

\* C2: with well-formed blocks and an all-accepting verifier, the payloads
\* added are, one per block and in order, those of the blocks received
\* (less the block still being processed), and so are the payloads
\* gossiped: exactly one AddPayload and one Gossip per block.
C2_OnePayloadPerBlock ==
    AllAccepted =>
        LET blocks == BlocksReceived
            adds == Adds
            gossips == Gossips
            nAdd == Len(blocks)
                      - (IF pc \in {"verify", "peers", "add"} THEN 1 ELSE 0)
            nGossip == Len(blocks) - (IF InBlock THEN 1 ELSE 0)
        IN  /\ Len(adds) = nAdd
            /\ Len(gossips) = nGossip
            /\ \A k \in 1..nAdd :
                  adds[k].payload =
                      createPayload(blocks[k].res.block.number,
                                    Marshal(blocks[k].res.block).bytes)
            /\ \A k \in 1..nGossip :
                  gossips[k].msg.Payload =
                      createPayload(blocks[k].res.block.number,
                                    Marshal(blocks[k].res.block).bytes)

\* The scenario [Block(1), Block(2), Status(success)] has run to its end:
\* payloads 1 and 2 were added and gossiped and DeliverBlocks has returned.
C2_Witness ==
    /\ Len(Recvs) = 3
    /\ IsBlock(Recvs[1].res) /\ Recvs[1].res.block.number = 1
    /\ IsBlock(Recvs[2].res) /\ Recvs[2].res.block.number = 2
    /\ Recvs[3].res.type = "Status" /\ Recvs[3].res.status = Status_SUCCESS
    /\ AllAccepted
    /\ Len(Adds) = 2 /\ Adds[1].payload.SeqNum = 1 /\ Adds[2].payload.SeqNum = 2
    /\ Len(Gossips) = 2
    /\ pc = "returned"
    /\ exit = "success"

\* ---------------------------------------------------------------------- C3
SeqNumsOf(calls) == [k \in 1..Len(calls) |-> calls[k].seqNum]
BlockNumbers(rs) == [k \in 1..Len(rs) |-> rs[k].res.block.number]

\* The loop is between two blocks: no received block is half processed.
BetweenBlocks == pc \in {"loop", "recv", "defer", "returned"}

\* C3 as stated: the sequence numbers passed to VerifyBlock are those of all
\* the block messages received, in order, none skipped.
C3_Original ==
    BetweenBlocks =>
        SeqNumsOf(Verifies) =
            BlockNumbers(SelectSeq(Recvs,
                LAMBDA c : IsBlock(c.res) /\ c.res.block.hasHeader))

\* C3 (amended): the sequence numbers passed to VerifyBlock are, in order,
\* those of the received blocks that serialized (a block that fails to
\* serialize is skipped before verification); the sequence numbers passed
\* to AddPayload and to Gossip are each the order-preserving subsequence of
\* those the verifier accepted.
C3_OrderPreserved ==
    LET verifies == Verifies
        adds == Adds
        gossips == Gossips
        verified == SeqNumsOf(verifies)
        accepted == SeqNumsOf(SelectSeq(verifies, LAMBDA c : c.ok))
        serialized ==
            BlockNumbers(SelectSeq(Recvs, LAMBDA c : IsWellFormed(c.res)))
    IN  /\ BetweenBlocks =>
              /\ verified = serialized
              /\ [k \in 1..Len(adds) |-> adds[k].payload.SeqNum] = accepted
              /\ [k \in 1..Len(gossips) |-> gossips[k].msg.Payload.SeqNum]
                    = accepted
        /\ pc \in {"peers", "add", "gossip"} =>
              /\ verified = serialized
              /\ verifies[Len(verifies)].ok
              /\ [k \in 1..Len(adds) |-> adds[k].payload.SeqNum]
                    = (IF pc = "gossip" THEN accepted
                       ELSE SubSeq(accepted, 1, Len(accepted) - 1))
              /\ [k \in 1..Len(gossips) |-> gossips[k].msg.Payload.SeqNum]
                    = SubSeq(accepted, 1, Len(accepted) - 1)

\* An unserializable block was skipped (never verified) and a later block
\* with a different number was verified, accepted, added and gossiped.
C3_Witness ==
    /\ Len(Recvs) >= 2
    /\ IsBlock(Recvs[1].res) /\ Recvs[1].res.block.hasHeader
    /\ Marshal(Recvs[1].res.block).err
    /\ Recvs[1].res.block.number = 2
    /\ SeqNumsOf(Verifies) = <<1>>
    /\ Len(Gossips) = 1 /\ Gossips[1].msg.Payload.SeqNum = 1
    /\ pc = "loop"

\* ---------------------------------------------------------------------- C4
IsSuccess(m) == ~m.err /\ m.type = "Status" /\ m.status = Status_SUCCESS
IsNonSuccess(m) == ~m.err /\ m.type = "Status" /\ m.status # Status_SUCCESS
IsUnknown(m) == ~m.err /\ m.type \notin {"", "Status", "Block"}

\* C4: every step that ends with a success status as the message of the
\* current iteration leaves DeliverBlocks returning (or returned) because of
\* it, and while that stays the message no further call to Recv,
\* VerifyBlock, AddPayload or Gossip is made.
C4_SuccessTerminates ==
    [][IsSuccess(msg') =>
          /\ pc' \in {"defer", "returned"}
          /\ exit' = "success"
          /\ IsSuccess(msg) => trace' = trace]_vars

\* A success status arrived while Stop() had not been called, and
\* DeliverBlocks has returned.
C4_Witness ==
    /\ IsSuccess(msg)
    /\ pc = "returned"
    /\ stops = 0

\* ---------------------------------------------------------------------- C5
LastCall == trace[Len(trace)]

\* C5: a step that ends with a non-success status as the message of the
\* iteration leaves the loop at its head with nothing called after that
\* Recv, and the loop's next step, when done is still 0, issues Recv again.
C5_NonSuccessContinues ==
    [][/\ IsNonSuccess(msg') =>
            /\ pc' = "loop"
            /\ exit' = "none"
            /\ LastCall'.op = "Recv" /\ LastCall'.res = msg'
       /\ (IsNonSuccess(msg) /\ pc' # pc /\ done = 0) =>
            /\ pc' = "recv"
            /\ trace' = trace]_vars

\* After a non-success status the loop is waiting in Recv again.
C5_Witness ==
    /\ pc = "recv"
    /\ trace # <<>>
    /\ LastCall.op = "Recv"
    /\ IsNonSuccess(LastCall.res)

\* ---------------------------------------------------------------------- C6
\* C6: every step that ends with an unrecognized message as the message of
\* the iteration leaves DeliverBlocks returning (or returned) because of it,
\* and while that stays the message no further call is made.
C6_UnknownTerminates ==
    [][IsUnknown(msg') =>
          /\ pc' \in {"defer", "returned"}
          /\ exit' = "unknown"
          /\ IsUnknown(msg) => trace' = trace]_vars

\* An unrecognized message arrived after a block had been processed, and
\* DeliverBlocks has returned.
C6_Witness ==
    /\ IsUnknown(msg)
    /\ pc = "returned"
    /\ Len(Gossips) = 1
    /\ stops = 0

\* ---------------------------------------------------------------------- C7
LastIsReject == trace # <<>> /\ LastCall.op = "VerifyBlock" /\ ~LastCall.ok

\* The calls that follow the accepted verification at position j, as far as
\* the trace goes, are PeersOfChannel, AddPayload and Gossip for that block,
\* and a trace that ends earlier has the loop at the call that is due.
ProcessedFrom(j) ==
    LET n == Len(trace) - j
        p == createPayload(trace[j].seqNum, trace[j].block)
    IN  /\ n = 0 => pc = "peers"
        /\ n >= 1 => trace[j + 1].op = "PeersOfChannel"
        /\ n = 1 => pc = "add"
        /\ n >= 2 => trace[j + 2].op = "AddPayload" /\ trace[j + 2].payload = p
        /\ n = 2 => pc = "gossip"
        /\ n >= 3 => trace[j + 3].op = "Gossip" /\ trace[j + 3].msg.Payload = p

\* C7: after VerifyBlock rejects a block the loop is at its head or in Recv
\* (or has left through the liveness flag, never because of the rejection);
\* its next step, when done is still 0, issues Recv; and a block that
\* follows and that the verifier accepts is added to the buffer and
\* gossiped.
C7_RejectContinues ==
    /\ [](LastIsReject => (pc \in {"loop", "recv"} \/ exit = "isDone"))
    /\ [][(LastIsReject /\ pc = "loop" /\ pc' # pc /\ done = 0) =>
             pc' = "recv"]_vars
    /\ [](\A i \in 1..Len(trace) :
            (/\ trace[i].op = "VerifyBlock" /\ ~trace[i].ok
             /\ i + 2 <= Len(trace)
             /\ trace[i + 1].op = "Recv"
             /\ trace[i + 2].op = "VerifyBlock" /\ trace[i + 2].ok)
                => ProcessedFrom(i + 2))

\* Block 1 was rejected, then block 2 was received, accepted, added and
\* gossiped.
C7_Witness ==
    /\ Len(trace) = 7
    /\ trace[2].op = "VerifyBlock" /\ ~trace[2].ok /\ trace[2].seqNum = 1
    /\ trace[4].op = "VerifyBlock" /\ trace[4].ok /\ trace[4].seqNum = 2
    /\ trace[6].op = "AddPayload" /\ trace[6].payload.SeqNum = 2
    /\ trace[7].op = "Gossip" /\ trace[7].msg.Payload.SeqNum = 2
    /\ pc = "recv"

\* ---------------------------------------------------------------------- C8
\* C8: whenever the liveness flag has been set by Stop() and DeliverBlocks
\* is running (it was running when Stop() was called, or is called
\* afterwards), DeliverBlocks eventually returns.
C8_StopTerminates == (done = 1 /\ Running) ~> ~Running

\* Stop() was called while the loop was blocked in its first Recv, and
\* DeliverBlocks has returned through the receive error.
C8_Witness ==
    /\ done = 1
    /\ stopPc = "idle"
    /\ pc = "returned"
    /\ exit = "recvErr"
    /\ trace = <<RecvCall(RecvError)>>

\* ---------------------------------------------------------------------- C9
\* DeliverBlocks calls that have ended, and Stop calls that have returned.
CompletedRuns == runs - (IF Running THEN 1 ELSE 0)
CompletedStops == stops - (IF stopPc = "close" THEN 1 ELSE 0)

\* C9 as stated: once the one DeliverBlocks call has returned and no Stop()
\* is in progress, Close() has been invoked exactly once.
C9_Original ==
    (runs = 1 /\ pc = "returned" /\ stopPc = "idle") => closeCalls = 1

\* C9 (amended): Close() is invoked exactly once by every DeliverBlocks call
\* that ends (the deferred call) and exactly once by every Stop() call; with
\* one DeliverBlocks call the total is one when Stop() is never called and
\* one more per Stop() call otherwise.  The stream is closed from the first
\* invocation on.
C9_CloseCalls ==
    /\ closeCalls = CompletedRuns + CompletedStops
    /\ closed <=> closeCalls >= 1
    /\ (runs = 1 /\ pc = "returned" /\ stops = 0) => closeCalls = 1

\* DeliverBlocks has returned and one Stop() call has returned: Close() was
\* invoked twice.
C9_Witness ==
    /\ runs = 1
    /\ pc = "returned"
    /\ stops = 1
    /\ stopPc = "idle"
    /\ closeCalls = 2

\* --------------------------------------------------------------------- C10
\* C10: every step that ends with a receive error as the result of the
\* iteration leaves DeliverBlocks returning (or returned) because of it, and
\* while that stays the result no further call is made; if the very first
\* Recv failed, nothing is ever verified, added or gossiped.
C10_RecvErrorFatal ==
    /\ [][msg'.err =>
             /\ pc' \in {"defer", "returned"}
             /\ exit' = "recvErr"
             /\ msg.err => trace' = trace]_vars
    /\ []((trace # <<>> /\ trace[1].res.err) =>
             \A i \in 1..Len(trace) : trace[i].op = "Recv" /\ trace[i].res.err)

\* The first Recv, on the open stream with Stop() never called, failed and
\* DeliverBlocks has returned with nothing added or gossiped.
C10_Witness ==
    /\ runs = 1
    /\ stops = 0
    /\ pc = "returned"
    /\ trace = <<RecvCall(RecvError)>>

\* --------------------------------------------------------------------- C11
\* C11: whenever DeliverBlocks has returned the stream is closed and Close()
\* has been invoked, and every step by which DeliverBlocks returns, for
\* whichever of the four causes, is the deferred call invoking Close(),
\* whether or not Stop() was ever called.
C11_ClosedOnExit ==
    /\ [](pc = "returned" =>
            /\ closed
            /\ closeCalls >= 1
            /\ exit \in {"isDone", "recvErr", "success", "unknown"})
    /\ [][(pc' = "returned" /\ pc # "returned") =>
             /\ pc = "defer"
             /\ closeCalls' = closeCalls + 1
             /\ closed']_vars

\* DeliverBlocks has returned on an unrecognized message with Stop() never
\* called: its own deferred call closed the stream.
C11_Witness ==
    /\ pc = "returned"
    /\ exit = "unknown"
    /\ stops = 0
    /\ closed
    /\ closeCalls = 1

\* --------------------------------------------------------------------- C12
\* C12 as stated: whenever DeliverBlocks has ended, it ended because the
\* liveness flag was found set, because Recv returned an error, because of
\* a success status or because of an unrecognized message; no block message
\* ends the loop by itself.
C12_OnlyFourCauses ==
    pc \in {"returned", "crashed"} =>
        exit \in {"isDone", "recvErr", "success", "unknown"}

\* --------------------------------------------------------------------- C13
\* C13: the step after AddPayload is the Gossip call, and the step after
\* that is the loop head, whatever AddPayload returned: the Gossip call
\* carries the payload just handed to AddPayload, and neither call changes
\* why or whether the loop goes on.
C13_BestEffort ==
    [][/\ (pc = "add" /\ pc' # pc) =>
            /\ pc' = "gossip"
            /\ exit' = exit
       /\ (pc = "gossip" /\ pc' # pc) =>
            /\ pc' = "loop"
            /\ exit' = exit
            /\ LastCall.op = "AddPayload"
            /\ trace' = Append(trace,
                  GossipCall(createGossipMsg(chainID, LastCall.payload)))
       /\ (pc = "loop" /\ pc' # pc /\ done = 0) => pc' = "recv"]_vars

\* AddPayload returned an error, the same block was gossiped all the same
\* and the loop is back at its head.
C13_Witness ==
    /\ addErr
    /\ pc = "loop"
    /\ exit = "none"
    /\ trace # <<>>
    /\ LastCall.op = "Gossip"
    /\ trace[Len(trace) - 1].op = "AddPayload"
    /\ LastCall.msg.Payload = trace[Len(trace) - 1].payload

\* --------------------------------------------------------------------- C14
\* C14: in the trace every VerifyBlock call comes right after the Recv that
\* returned its block, every PeersOfChannel call right after an accepting
\* VerifyBlock, every AddPayload call right after PeersOfChannel, every
\* Gossip call right after the AddPayload of the same payload, and every
\* Recv right after a Recv, a rejecting VerifyBlock or a Gossip; a Recv is
\* pending only when no block is half processed.  So the calls for one
\* block are made in the order VerifyBlock, PeersOfChannel, AddPayload,
\* Gossip and never interleave with those of another block.
C14_StepOrder ==
    /\ \A i \in 1..Len(trace) :
          LET c == trace[i]
              prevOp == IF i = 1 THEN "" ELSE trace[i - 1].op
          IN  /\ c.op = "VerifyBlock" =>
                    /\ prevOp = "Recv"
                    /\ IsWellFormed(trace[i - 1].res)
                    /\ c.seqNum = trace[i - 1].res.block.number
              /\ c.op = "PeersOfChannel" =>
                    prevOp = "VerifyBlock" /\ trace[i - 1].ok
              /\ c.op = "AddPayload" =>
                    /\ prevOp = "PeersOfChannel"
                    /\ c.payload.SeqNum = trace[i - 2].seqNum
              /\ c.op = "Gossip" =>
                    /\ prevOp = "AddPayload"
                    /\ c.msg.Payload = trace[i - 1].payload
              /\ c.op = "Recv" =>
                    \/ prevOp \in {"", "Recv", "Gossip"}
                    \/ prevOp = "VerifyBlock" /\ ~trace[i - 1].ok
    /\ (pc = "recv" /\ trace # <<>>) =>
          \/ LastCall.op \in {"Recv", "Gossip"}
          \/ LastCall.op = "VerifyBlock" /\ ~LastCall.ok

\* Two accepted blocks went through the loop one after the other, each with
\* its four calls in order.
C14_Witness ==
    /\ Len(trace) = 10
    /\ [k \in 1..10 |-> trace[k].op] =
          <<"Recv", "VerifyBlock", "PeersOfChannel", "AddPayload", "Gossip",
            "Recv", "VerifyBlock", "PeersOfChannel", "AddPayload", "Gossip">>
    /\ trace[2].seqNum = 2
    /\ trace[7].seqNum = 1
    /\ pc = "recv"

\* --------------------------------------------------------------------- C15
\* C15: every payload passed to AddPayload has the header number of the
\* block received in that iteration as SeqNum and the bytes that were passed
\* to VerifyBlock as Data, under the relay's channel identifier; every
\* gossip message wraps the payload just added, names the same channel, and
\* has the channel-and-organization tag and nonce 0.
C15_Content ==
    \A i \in 1..Len(trace) :
        LET c == trace[i] IN
        /\ c.op = "AddPayload" =>
              LET j == LastRecvBefore(i) IN
              /\ j > 0
              /\ trace[j + 1].op = "VerifyBlock"
              /\ trace[j + 1].chainID = chainID
              /\ c.chainID = chainID
              /\ c.payload.SeqNum = trace[j].res.block.number
              /\ c.payload.Data = trace[j + 1].block
              /\ c.payload.Data = <<trace[j].res.block.number,
                                    trace[j].res.block.data>>
        /\ c.op = "Gossip" =>
              /\ i > 1
              /\ trace[i - 1].op = "AddPayload"
              /\ c.msg.Payload = trace[i - 1].payload
              /\ c.msg.Channel = chainID
              /\ c.msg.Channel = trace[i - 1].chainID
              /\ c.msg.Tag = "CHAN_AND_ORG"
              /\ c.msg.Nonce = 0

\* Block 2 was accepted, added and gossiped on channel chA.
C15_Witness ==
    /\ trace # <<>>
    /\ LastCall.op = "Gossip"
    /\ LastCall.msg.Channel = "chA"
    /\ LastCall.msg.Payload = [SeqNum |-> 2, Data |-> <<2, "d0">>]
    /\ Len(Adds) = 1

\* --------------------------------------------------------------------- C16
\* A block message with a header that proto.Marshal fails on.
IsUnserializable(m) ==
    IsBlock(m) /\ m.block.hasHeader /\ Marshal(m.block).err

\* C16: a step that ends with an unserializable block as the message of the
\* iteration leaves the loop at its head, not terminated, with nothing
\* called after that Recv (no VerifyBlock, PeersOfChannel, AddPayload or
\* Gossip); the loop's next step, when done is still 0, issues Recv again.
C16_SerializationFailureSkipped ==
    [][/\ IsUnserializable(msg') =>
            /\ pc' = "loop"
            /\ exit' = "none"
            /\ LastCall'.op = "Recv" /\ LastCall'.res = msg'
       /\ (IsUnserializable(msg) /\ pc' # pc /\ done = 0) =>
            /\ pc' = "recv"
            /\ trace' = trace]_vars

\* After an unserializable block the loop is waiting in Recv again, the
\* block never having been verified.
C16_Witness ==
    /\ pc = "recv"
    /\ trace # <<>>
    /\ LastCall.op = "Recv"
    /\ IsUnserializable(LastCall.res)
    /\ Len(Verifies) = 0

\* --------------------------------------------------------------------- C17
\* C17: a relay starts with the flag in the running state (done = 0); the
\* only step that changes done is the store of Stop(), from 0 to 1 or from
\* 1 to 1, so the flag is never reset and no step of DeliverBlocks, its
\* exits included, touches it; chainID never changes.
C17_FlagOnlyByStop ==
    /\ done = 0
    /\ [][/\ done' # done =>
               /\ done = 0 /\ done' = 1
               /\ stopPc = "idle" /\ stopPc' = "close"
               /\ pc' = pc
          /\ done = 1 => done' = 1
          /\ pc' # pc => done' = done
          /\ chainID' = chainID]_vars

\* Stop() has been called, DeliverBlocks has run twice and returned: the
\* flag is still set, and the relay is still on its channel.
C17_Witness ==
    /\ done = 1
    /\ runs = 2
    /\ pc = "returned"
    /\ chainID = "chA"

\* --------------------------------------------------------------------- C18
\* The relay has stopped: a DeliverBlocks call has ended, or Stop() has set
\* the flag while DeliverBlocks is not inside an iteration.
Stopped ==
    \/ CompletedRuns >= 1
    \/ done = 1 /\ pc \in {"new", "loop", "defer", "returned"}

\* C18: once the relay has stopped it stays stopped, and no step made from
\* then on, a further DeliverBlocks call included, calls VerifyBlock,
\* AddPayload or Gossip: the trace only grows by failed Recv calls.
C18_NoRestart ==
    [][Stopped =>
          /\ Stopped'
          /\ \/ trace' = trace
             \/ trace' = Append(trace, RecvCall(RecvError))]_vars

\* A relay that added one payload and then stopped on a success status was
\* started again: the second DeliverBlocks call returned on a receive error
\* and nothing more was added or gossiped.
C18_Witness ==
    /\ runs = 2
    /\ stops = 0
    /\ pc = "returned"
    /\ exit = "recvErr"
    /\ Len(Adds) = 1
    /\ Len(Gossips) = 1
    /\ Len(trace) = 7
    /\ IsSuccess(trace[6].res)
    /\ trace[7] = RecvCall(RecvError)

\* --------------------------------------------------------------------- C19
\* C19: in every interleaving of Stop() with the loop, each collaborator
\* (Recv, VerifyBlock, PeersOfChannel, AddPayload, Gossip) returns at most
\* one call to the loop once done = 1, so at most one further Recv is
\* started and at most one further block is verified, added and gossiped;
\* the loop enters a Recv with done = 1 only if it was already past the
\* check of line 117 when the flag was stored; and when the flag is set
\* while DeliverBlocks is not running or is at the loop head, no call is
\* made at all, in this or in any later DeliverBlocks call.
C19_BoundedAfterStop ==
    /\ [](\A o \in Callees : callsAfterStop[o] <= 1)
    /\ [][(done = 1 /\ pc # "recv") => pc' # "recv"]_vars
    /\ [][(done = 1 /\ pc \in {"new", "loop", "defer", "returned"}) =>
              /\ trace' = trace
              /\ callsAfterStop' = callsAfterStop
              /\ pc' \in {"new", "loop", "defer", "returned"}]_vars

\* Stop() stored the flag after the loop had passed the check of line 117:
\* one more Recv returned a block, which was verified, added and gossiped,
\* and the loop then left at its head.
C19_Witness ==
    /\ \A o \in Callees : callsAfterStop[o] = 1
    /\ Len(Recvs) = 1
    /\ Len(Gossips) = 1
    /\ pc = "returned"
    /\ exit = "isDone"

====
